---- MODULE Spec2Model ----
(***************************************************************************)
(* Model of the media storage service in src/app.py: upload into a         *)
(* date-partitioned tree under MEDIA_ROOT, byte-range serving under /cdn,  *)
(* and deletion by canonical address with pruning of empty directories.    *)
(*                                                                         *)
(* Python strings are modelled as sequences of one-character strings, so   *)
(* that prefix tests, stripping, splitting and path normalisation are      *)
(* computed the way the library routines compute them.                     *)
(***************************************************************************)
EXTENDS Integers, Sequences, FiniteSets, TLC

-----------------------------------------------------------------------------
(* str methods used by app.py                                              *)

\* s[i:] (0-based slice from i to the end)
SliceFrom(s, i) == SubSeq(s, i + 1, Len(s))

\* s[:i]
SliceTo(s, i) == SubSeq(s, 1, IF i < Len(s) THEN i ELSE Len(s))

\* s.startswith(p)
startswith(s, p) == Len(s) >= Len(p) /\ SubSeq(s, 1, Len(p)) = p

\* s.endswith(p)
endswith(s, p) == Len(s) >= Len(p) /\ SubSeq(s, Len(s) - Len(p) + 1, Len(s)) = p

\* s.lstrip(chars)
RECURSIVE lstrip(_, _)
lstrip(s, chars) ==
  IF s # << >> /\ Head(s) \in chars THEN lstrip(Tail(s), chars) ELSE s

\* s.rstrip(chars)
RECURSIVE rstrip(_, _)
rstrip(s, chars) ==
  IF s # << >> /\ s[Len(s)] \in chars
  THEN rstrip(SubSeq(s, 1, Len(s) - 1), chars) ELSE s

Whitespace == {" "}

\* s.strip()
strip(s) == rstrip(lstrip(s, Whitespace), Whitespace)

\* s.split(sep) for a one-character sep: always at least one component
RECURSIVE split(_, _)
split(s, sep) ==
  IF \E i \in 1..Len(s) : s[i] = sep
  THEN LET i == CHOOSE k \in 1..Len(s) :
                  s[k] = sep /\ \A j \in 1..(k - 1) : s[j] # sep
       IN  <<SubSeq(s, 1, i - 1)>> \o split(SliceFrom(s, i), sep)
  ELSE <<s>>

\* sep.join(comps)
RECURSIVE join(_, _)
join(sep, comps) ==
  IF comps = << >> THEN << >>
  ELSE IF Len(comps) = 1 THEN comps[1]
  ELSE comps[1] \o sep \o join(sep, Tail(comps))

\* s.rfind(c) + 1 : 1-based position of the last c, 0 when absent
rfind1(s, c) ==
  IF \E i \in 1..Len(s) : s[i] = c
  THEN CHOOSE k \in 1..Len(s) : s[k] = c /\ \A j \in (k + 1)..Len(s) : s[j] # c
  ELSE 0

Upper == <<"A","B","C","D","E","F","G","H","I","J","K","L","M",
           "N","O","P","Q","R","S","T","U","V","W","X","Y","Z">>
Lower == <<"a","b","c","d","e","f","g","h","i","j","k","l","m",
           "n","o","p","q","r","s","t","u","v","w","x","y","z">>

\* s.lower()
lower(s) ==
  [i \in 1..Len(s) |->
     IF \E k \in 1..Len(Upper) : Upper[k] = s[i]
     THEN Lower[CHOOSE k \in 1..Len(Upper) : Upper[k] = s[i]]
     ELSE s[i]]

Digits == <<"0","1","2","3","4","5","6","7","8","9">>
IsDigit(c) == \E k \in 1..Len(Digits) : Digits[k] = c
DigitVal(c) == (CHOOSE k \in 1..Len(Digits) : Digits[k] = c) - 1

\* int(s) for a non-empty string of decimal digits
RECURSIVE int(_)
int(s) ==
  IF s = << >> THEN 0
  ELSE int(SubSeq(s, 1, Len(s) - 1)) * 10 + DigitVal(s[Len(s)])

\* str(n) for n >= 0
RECURSIVE str(_)
str(n) ==
  IF n < 10 THEN <<Digits[n + 1]>> ELSE str(n \div 10) \o <<Digits[(n % 10) + 1]>>

-----------------------------------------------------------------------------
(* posixpath routines used by app.py                                       *)

sep == <<"/">>

\* os.path.normpath(path)
RECURSIVE normcomps(_, _, _)
normcomps(comps, new_comps, initial_slashes) ==
  IF comps = << >> THEN new_comps
  ELSE LET comp == Head(comps)
           n    == Len(new_comps)
       IN  IF comp = << >> \/ comp = <<".">>
           THEN normcomps(Tail(comps), new_comps, initial_slashes)
           ELSE IF \/ comp # <<".", ".">>
                   \/ (initial_slashes = 0 /\ n = 0)
                   \/ (n > 0 /\ new_comps[n] = <<".", ".">>)
           THEN normcomps(Tail(comps), Append(new_comps, comp), initial_slashes)
           ELSE IF n > 0
           THEN normcomps(Tail(comps), SubSeq(new_comps, 1, n - 1), initial_slashes)
           ELSE normcomps(Tail(comps), new_comps, initial_slashes)

normpath(path) ==
  IF path = << >> THEN <<".">>
  ELSE LET initial_slashes ==
             IF ~startswith(path, sep) THEN 0
             ELSE IF startswith(path, <<"/", "/">>) /\ ~startswith(path, <<"/", "/", "/">>)
             THEN 2 ELSE 1
           body == join(sep, normcomps(split(path, "/"), << >>, initial_slashes))
           res  == [i \in 1..initial_slashes |-> "/"] \o body
       IN  IF res = << >> THEN <<".">> ELSE res

\* os.path.join(a, b)
pathjoin(a, b) ==
  IF startswith(b, sep) THEN b
  ELSE IF a = << >> \/ endswith(a, sep) THEN a \o b
  ELSE a \o sep \o b

\* os.getcwd() of the server process
getcwd == <<"/", "a", "p", "p">>

\* os.path.abspath(path)
abspath(path) ==
  normpath(IF startswith(path, sep) THEN path ELSE pathjoin(getcwd, path))

\* os.path.dirname(p)
dirname(p) ==
  LET head == SliceTo(p, rfind1(p, "/"))
  IN  IF head # << >> /\ \E i \in 1..Len(head) : head[i] # "/"
      THEN rstrip(head, {"/"}) ELSE head

-----------------------------------------------------------------------------
(* Configuration (app.py lines 14-19) and literals                         *)

\* MEDIA_ROOT = "/app/media"
MEDIA_ROOT == <<"/", "a", "p", "p", "/", "m", "e", "d", "i", "a">>

mp4  == <<"m", "p", "4">>
webm == <<"w", "e", "b", "m">>
mov  == <<"m", "o", "v">>
m4v  == <<"m", "4", "v">>
avi  == <<"a", "v", "i">>
jpg  == <<"j", "p", "g">>
jpeg == <<"j", "p", "e", "g">>
png  == <<"p", "n", "g">>
webp == <<"w", "e", "b", "p">>

\* ALLOWED_EXT = {"mp4","webm","mov","m4v","avi","jpg","jpeg","png","webp"}
ALLOWED_EXT == {mp4, webm, mov, m4v, avi, jpg, jpeg, png, webp}

\* "https://storage.grupoupper.com.br"
DefaultBaseUrl ==
  <<"h","t","t","p","s",":","/","/">> \o <<"s","t","o","r","a","g","e",".">>
  \o <<"g","r","u","p","o","u","p","p","e","r",".","c","o","m",".","b","r">>

http_  == <<"h", "t", "t", "p", ":", "/", "/">>
https_ == <<"h", "t", "t", "p", "s", ":", "/", "/">>
cdn_   == <<"/", "c", "d", "n", "/">>
Bearer_ == <<"B", "e", "a", "r", "e", "r", " ">>
uploads == <<"u", "p", "l", "o", "a", "d", "s">>
file_   == <<"f", "i", "l", "e">>

VARIABLES
  UPLOAD_TOKEN,     \* configured bearer token ("" = no authentication)
  PUBLIC_BASE_URL,  \* configured public base URL
  clock,            \* index into Dates of the current UTC month
  dirs,             \* the directories that exist on disk
  files,            \* the regular files on disk: path -> bytes
  req,              \* the request being answered (NoReq between requests)
  resp,             \* the response produced for req (NoResp between requests)
  full,             \* the handler's resolved path (local full / full_abs), or <<>>
  threads,          \* the handlers running concurrently: worker -> its position
                    \* and locals (used when requests are served by threads)
  stream            \* the _file_iter generator of a 206 response being sent

vars == <<UPLOAD_TOKEN, PUBLIC_BASE_URL, clock, dirs, files, req, resp, full,
          threads, stream>>

-----------------------------------------------------------------------------
(* The filesystem                                                          *)

\* os.path.isfile(p)
isfile(fs, p) == p \in DOMAIN fs

\* os.path.isdir(p)
isdir(ds, p) == p \in ds

\* os.listdir(p)
listdir(ds, fs, p) ==
  {q \in (ds \cup DOMAIN fs) : q # p /\ dirname(q) = p}

\* all directories from d up to "/"
RECURSIVE ancestors(_)
ancestors(d) == IF dirname(d) = d THEN {d} ELSE {d} \cup ancestors(dirname(d))

\* os.makedirs(d, exist_ok=True)
makedirs(ds, d) == ds \cup ancestors(d)

\* f.save(path): create or overwrite
save(fs, path, content) ==
  [q \in DOMAIN fs \cup {path} |-> IF q = path THEN content ELSE fs[q]]

\* os.remove(path)
remove(fs, path) == [q \in DOMAIN fs \ {path} |-> fs[q]]

\* dict.get(key, default)
get(d, key, default) == IF key \in DOMAIN d THEN d[key] ELSE default

-----------------------------------------------------------------------------
(* Library routines the handlers call                                      *)

\* the part of s after the first c (s.split(c, 1)[1]); s itself has a c
afterfirst(s, c) ==
  SliceFrom(s, CHOOSE k \in 1..Len(s) : s[k] = c /\ \A j \in 1..(k - 1) : s[j] # c)

\* s.rsplit(".", 1)[1]
rsplit_ext(s) == SliceFrom(s, rfind1(s, "."))

\* os.path.splitext(p)[0]
splitext_root(p) ==
  LET sepI == rfind1(p, "/")
      dotI == rfind1(p, ".")
  IN  IF dotI > sepI /\ \E k \in (sepI + 1)..(dotI - 1) : p[k] # "."
      THEN SliceTo(p, dotI - 1) ELSE p

IsAsciiNameChar(c) ==
  \/ \E k \in 1..Len(Upper) : Upper[k] = c \/ Lower[k] = c
  \/ IsDigit(c)
  \/ c \in {"_", ".", "-"}

\* werkzeug.utils.secure_filename(filename)
secure_filename(filename) ==
  LET spaced == [i \in 1..Len(filename) |->
                   IF filename[i] = "/" THEN " " ELSE filename[i]]
      words  == SelectSeq(split(spaced, " "), LAMBDA w : w # << >>)
      joined == join(<<"_">>, words)
      ascii  == SelectSeq(joined, IsAsciiNameChar)
  IN  rstrip(lstrip(ascii, {".", "_"}), {".", "_"})

\* imghdr.what that recognises everything
imghdr_detects_anything(content) == TRUE

\* imghdr.what(path) is not None: the header tests for BMP, SGI and PNG
\* (the other formats' magic numbers do not occur in the payloads used here)
imghdr_detects(content) ==
  \/ startswith(content, <<66, 77>>)
  \/ startswith(content, <<1, 218>>)
  \/ startswith(content, <<137, 80, 78, 71, 13, 10, 26, 10>>)

\* mimetypes.guess_type(path)[0] or "application/octet-stream"
guess_type(path) ==
  LET e == IF rfind1(path, ".") > rfind1(path, "/")
           THEN lower(rsplit_ext(path)) ELSE << >>
  IN  IF e \in {mp4, m4v} THEN "video/mp4"
      ELSE IF e = webm THEN "video/webm"
      ELSE IF e = mov THEN "video/quicktime"
      ELSE IF e = avi THEN "video/x-msvideo"
      ELSE IF e \in {jpg, jpeg} THEN "image/jpeg"
      ELSE IF e = png THEN "image/png"
      ELSE IF e = webp THEN "image/webp"
      ELSE "application/octet-stream"

\* flask.jsonify(**fields), status
jsonify(status, fields) ==
  [status |-> status, headers |-> << >>, body |-> << >>, json |-> fields]

\* flask.abort(status) / Response(status=status)
empty_response(status) ==
  [status |-> status, headers |-> << >>, body |-> << >>, json |-> << >>]

-----------------------------------------------------------------------------
(* _allowed_file, _auth_ok                                                 *)

\* _allowed_file without the allow-set test
_allowed_file_dot_only(filename) ==
  \E i \in 1..Len(filename) : filename[i] = "."

_allowed_file(filename) ==
  /\ \E i \in 1..Len(filename) : filename[i] = "."
  /\ lower(rsplit_ext(filename)) \in ALLOWED_EXT

\* _auth_ok without the comparison of the token
_auth_ok_any_bearer(request) ==
  IF UPLOAD_TOKEN = << >> THEN TRUE
  ELSE startswith(get(request.headers, "Authorization", << >>), Bearer_)

_auth_ok(request) ==
  IF UPLOAD_TOKEN = << >> THEN TRUE
  ELSE LET auth == get(request.headers, "Authorization", << >>)
       IN  startswith(auth, Bearer_) /\ afterfirst(auth, " ") = UPLOAD_TOKEN

-----------------------------------------------------------------------------
(* POST /admin/media/upload                                                *)

\* The handler's result: the response, the filesystem it leaves, and the
\* path it resolved (<<>> when it returned before resolving one).
Result(r, ds, fs, path) == [resp |-> r, dirs |-> ds, files |-> fs, full |-> path]

\* today is the pair of strftime("%Y"), strftime("%m"); hex8 is uuid4().hex[:8].
\* Bodies above MAX_CONTENT_LENGTH are refused by the framework before the
\* handler runs and are not sent here.
media_upload(ds, fs, request, today, hex8) ==
  IF ~_auth_ok(request)
  THEN Result(jsonify(401, [ok |-> FALSE, error |-> "unauthorized"]), ds, fs, << >>)
  ELSE IF "file" \notin DOMAIN request.files \/ request.files["file"].filename = << >>
  THEN Result(jsonify(400, [ok |-> FALSE, error |-> "file missing"]), ds, fs, << >>)
  ELSE LET f == request.files["file"] IN
  IF ~_allowed_file(f.filename)
  THEN Result(jsonify(400, [ok |-> FALSE, error |-> "file extension not allowed"]),
              ds, fs, << >>)
  ELSE
    LET ext      == lower(rsplit_ext(f.filename))
        subdir   == pathjoin(pathjoin(pathjoin(MEDIA_ROOT, uploads), today.Y), today.m)
        ds1      == makedirs(ds, subdir)
        sbase    == SliceTo(secure_filename(splitext_root(f.filename)), 80)
        base     == IF sbase = << >> THEN file_ ELSE sbase
        filename == base \o <<"-">> \o hex8 \o <<".">> \o ext
        fullpath == pathjoin(subdir, filename)
        fs1      == save(fs, fullpath, f.content)
        rel_url  == cdn_ \o uploads \o sep \o today.Y \o sep \o today.m \o sep \o filename
        abs_url  == PUBLIC_BASE_URL \o rel_url
    IN  IF ext \in {jpg, jpeg, png} /\ ~imghdr_detects(fs1[fullpath])
        THEN Result(jsonify(400, [ok |-> FALSE, error |-> "invalid image"]),
                    ds1, fs1, fullpath)
        ELSE Result(jsonify(200, [ok |-> TRUE, url |-> abs_url, rel_url |-> rel_url,
                                  mime |-> guess_type(fullpath),
                                  size |-> Len(fs1[fullpath])]),
                    ds1, fs1, fullpath)

-----------------------------------------------------------------------------
(* GET /cdn/<path:relpath>                                                 *)

bytes_eq == <<"b", "y", "t", "e", "s", "=">>
bytes_   == <<"b", "y", "t", "e", "s">>

\* the longest prefix of s made of decimal digits
RECURSIVE digitrun(_)
digitrun(s) ==
  IF s # << >> /\ IsDigit(Head(s)) THEN <<Head(s)>> \o digitrun(Tail(s)) ELSE << >>

\* re.match(r"bytes=(\d+)-(\d*)", rng): matched, group(1), group(2)
re_match_range(rng) ==
  LET rest  == SliceFrom(rng, Len(bytes_eq))
      g1    == digitrun(rest)
      rest2 == SliceFrom(rest, Len(g1))
  IN  IF startswith(rng, bytes_eq) /\ g1 # << >> /\ startswith(rest2, <<"-">>)
      THEN [matched |-> TRUE, g1 |-> g1, g2 |-> digitrun(Tail(rest2))]
      ELSE [matched |-> FALSE, g1 |-> << >>, g2 |-> << >>]

\* str(n) for any integer n
strint(n) == IF n < 0 THEN <<"-">> \o str(0 - n) ELSE str(n)

\* f"bytes {start}-{end}/{file_size}"
content_range(start, end, file_size) ==
  bytes_ \o <<" ">> \o strint(start) \o <<"-">> \o strint(end) \o <<"/">> \o strint(file_size)

\* data[i:j] of a bytes object (0-based, end exclusive, clipped to the data)
byteslice(data, i, j) ==
  SubSeq(data, i + 1, IF j < Len(data) THEN j ELSE Len(data))

\* The chunks _file_iter yields once the file is open and positioned: pos is
\* the file offset; limited is (remaining is not None); remaining the bytes
\* still owed when limited.
RECURSIVE file_iter_loop(_, _, _, _, _)
file_iter_loop(data, pos, limited, remaining, chunk) ==
  IF limited /\ remaining <= 0 THEN << >>
  ELSE LET read == IF ~limited \/ chunk < remaining THEN chunk ELSE remaining
           got  == byteslice(data, pos, pos + read)
       IN  IF got = << >> THEN << >>
           ELSE <<got>> \o file_iter_loop(data, pos + Len(got), limited,
                                          remaining - Len(got), chunk)

\* _file_iter(path, start, end, chunk) on a file holding data: the sequence of
\* chunks yielded (cdn always passes end, so remaining is never None there).
_file_iter(data, start, end, chunk) ==
  file_iter_loop(data, start, TRUE, end - start + 1, chunk)

\* the body a client receives from a chunk iterator
RECURSIVE concat(_)
concat(chunks) == IF chunks = << >> THEN << >> ELSE Head(chunks) \o concat(Tail(chunks))

\* default chunk size of _file_iter
chunk_default == 8192

Accept_Ranges  == "Accept-Ranges"
Content_Range  == "Content-Range"
Content_Length == "Content-Length"

(* werkzeug's range handling behind send_file(..., conditional=True):       *)
(* parse_range_header, Range.range_for_length and make_conditional.         *)

IsPlainInt(s) == s # << >> /\ \A i \in 1..Len(s) : IsDigit(s[i])

\* One item of the header's range list, given last_end of the items before
\* it: [ok, begin, open, end, last_end]; open stands for end = None.
parse_range_item(raw, last_end) ==
  LET item == strip(raw)
      bad  == [ok |-> FALSE, begin |-> 0, open |-> TRUE, end |-> 0, last_end |-> last_end]
  IN  IF ~\E i \in 1..Len(item) : item[i] = "-" THEN bad
      ELSE IF startswith(item, <<"-">>)
      THEN IF last_end < 0 \/ ~IsPlainInt(Tail(item)) THEN bad
           ELSE [ok |-> TRUE, begin |-> 0 - int(Tail(item)), open |-> TRUE, end |-> 0,
                 last_end |-> -1]
      ELSE LET parts     == split(item, "-")
               begin_str == strip(parts[1])
               end_str   == strip(afterfirst(item, "-"))
           IN  IF ~IsPlainInt(begin_str) THEN bad
               ELSE IF int(begin_str) < last_end \/ last_end < 0 THEN bad
               ELSE IF end_str = << >>
               THEN [ok |-> TRUE, begin |-> int(begin_str), open |-> TRUE, end |-> 0,
                     last_end |-> -1]
               ELSE IF ~IsPlainInt(end_str) \/ int(begin_str) >= int(end_str) + 1 THEN bad
               ELSE [ok |-> TRUE, begin |-> int(begin_str), open |-> FALSE,
                     end |-> int(end_str) + 1, last_end |-> int(end_str) + 1]

RECURSIVE parse_range_items(_, _)
parse_range_items(items, last_end) ==
  IF items = << >> THEN [ok |-> TRUE, ranges |-> << >>]
  ELSE LET it == parse_range_item(Head(items), last_end)
       IN  IF ~it.ok THEN [ok |-> FALSE, ranges |-> << >>]
           ELSE LET more == parse_range_items(Tail(items), it.last_end)
                IN  [ok |-> more.ok, ranges |-> <<it>> \o more.ranges]

\* werkzeug.http.parse_range_header(value): [ok, units, ranges]
parse_range_header(value) ==
  IF ~\E i \in 1..Len(value) : value[i] = "="
  THEN [ok |-> FALSE, units |-> << >>, ranges |-> << >>]
  ELSE LET units == lower(strip(split(value, "=")[1]))
           got   == parse_range_items(split(afterfirst(value, "="), ","), 0)
       IN  [ok |-> got.ok, units |-> units, ranges |-> got.ranges]

\* Range.range_for_length(length): [ok, start, stop]
range_for_length(parsed, length) ==
  IF parsed.units # bytes_ \/ Len(parsed.ranges) # 1
  THEN [ok |-> FALSE, start |-> 0, stop |-> 0]
  ELSE LET r     == parsed.ranges[1]
           stop  == IF r.open THEN length ELSE r.end
           start == IF r.begin < 0 THEN r.begin + length ELSE r.begin
       IN  IF start >= stop \/ ~(0 <= start /\ start < length)
           THEN [ok |-> FALSE, start |-> 0, stop |-> 0]
           ELSE [ok |-> TRUE, start |-> start,
                 stop |-> IF stop < length THEN stop ELSE length]

\* send_file(full, conditional=True, ...) followed by lines 130-132: without
\* a Range header, or for an empty file, the whole file with status 200;
\* otherwise werkzeug evaluates the Range header itself (206 or 416).
send_file(data, request) ==
  IF "Range" \notin DOMAIN request.headers \/ Len(data) = 0
  THEN [status  |-> 200,
        headers |-> (Accept_Ranges :> bytes_) @@ (Content_Length :> strint(Len(data))),
        body    |-> data,
        json    |-> << >>]
  ELSE LET parsed == parse_range_header(request.headers["Range"])
           rng    == range_for_length(parsed, Len(data))
       IN  IF ~parsed.ok \/ ~rng.ok
           THEN [status  |-> 416,
                 headers |-> (Content_Range :>
                                bytes_ \o <<" ", "*", "/">> \o strint(Len(data))),
                 body    |-> << >>,
                 json    |-> << >>]
           ELSE [status  |-> 206,
                 headers |-> (Accept_Ranges :> bytes_)
                             @@ (Content_Range :>
                                   content_range(rng.start, rng.stop - 1, Len(data)))
                             @@ (Content_Length :> strint(rng.stop - rng.start)),
                 body    |-> byteslice(data, rng.start, rng.stop),
                 json    |-> << >>]

\* cdn_resolve with the prefix test written without os.sep
cdn_resolve_loose_prefix(relpath) ==
  LET safe_rel == normpath(relpath)
      full0    == abspath(pathjoin(MEDIA_ROOT, safe_rel))
      root_abs == abspath(MEDIA_ROOT)
  IN  [ok |-> startswith(full0, root_abs), full |-> full0]

\* cdn_resolve without the prefix test of line 103
cdn_resolve_unchecked(relpath) ==
  [ok |-> TRUE, full |-> abspath(pathjoin(MEDIA_ROOT, normpath(relpath)))]

\* lines 99-104: [ok, full]
cdn_resolve(relpath) ==
  LET safe_rel == normpath(relpath)
      full0    == abspath(pathjoin(MEDIA_ROOT, safe_rel))
      root_abs == abspath(MEDIA_ROOT)
  IN  [ok |-> startswith(full0, root_abs \o sep), full |-> full0]

\* line 117 written with > for >=
range_unsatisfiable_strict(start, file_size) == start > file_size

\* line 117
range_unsatisfiable(start, file_size) == start >= file_size

cdn(ds, fs, relpath, request) ==
  LET res == cdn_resolve(relpath) IN
  IF ~res.ok THEN Result(empty_response(403), ds, fs, << >>)
  ELSE IF ~isfile(fs, res.full) THEN Result(empty_response(404), ds, fs, res.full)
  ELSE
    LET file_size == Len(fs[res.full])
        rng       == strip(get(request.headers, "Range", << >>))
        m         == IF rng # << >> THEN re_match_range(rng)
                     ELSE [matched |-> FALSE, g1 |-> << >>, g2 |-> << >>]
    IN  IF m.matched
        THEN LET start == int(m.g1)
                 end   == IF m.g2 # << >> THEN int(m.g2) ELSE file_size - 1
             IN  IF range_unsatisfiable(start, file_size)
                 THEN Result(empty_response(416), ds, fs, res.full)
                 ELSE Result(
                        [status  |-> 206,
                         headers |-> (Content_Range :>
                                        content_range(start, end, file_size))
                                     @@ (Accept_Ranges :> bytes_)
                                     @@ (Content_Length :> strint(end - start + 1)),
                         body    |-> concat(_file_iter(fs[res.full], start, end,
                                                       chunk_default)),
                         json    |-> << >>],
                        ds, fs, res.full)
        ELSE Result(send_file(fs[res.full], request), ds, fs, res.full)

-----------------------------------------------------------------------------
(* _to_rel_url, _rel_to_full                                               *)

\* lines 139-148, _to_rel_url(url_or_rel): [ok, value]; ~ok stands for the
\* ValueError
_to_rel_url(url_or_rel) ==
  LET s0 == strip(url_or_rel)
      s  == IF startswith(s0, http_) \/ startswith(s0, https_)
            THEN LET base == rstrip(PUBLIC_BASE_URL, {"/"})
                 IN  IF startswith(s0, base) THEN SliceFrom(s0, Len(base)) ELSE s0
            ELSE s0
  IN  IF ~startswith(s, cdn_) THEN [ok |-> FALSE, value |-> s]
      ELSE [ok |-> TRUE, value |-> s]

\* lines 150-158, _rel_to_full(rel_url): [ok, full]; ~ok stands for the
\* PermissionError
_rel_to_full(rel_url) ==
  LET rel      == lstrip(rel_url, {"/"})
      full0    == pathjoin(MEDIA_ROOT, normpath(rel))
      full_abs == abspath(full0)
      root_abs == abspath(MEDIA_ROOT)
  IN  [ok |-> startswith(full_abs, root_abs \o sep), full |-> full_abs]

-----------------------------------------------------------------------------
(* POST|DELETE|GET /admin/media/delete                                     *)

\* lines 188-192 with the base taken as configured, without rstrip("/")
strip_base_keep_slash(s) ==
  IF startswith(s, http_) \/ startswith(s, https_)
  THEN IF startswith(s, PUBLIC_BASE_URL) THEN SliceFrom(s, Len(PUBLIC_BASE_URL)) ELSE s
  ELSE s

\* lines 188-192 of the handler: strip PUBLIC_BASE_URL from a full URL
strip_base(s) ==
  IF startswith(s, http_) \/ startswith(s, https_)
  THEN LET base == rstrip(PUBLIC_BASE_URL, {"/"})
       IN  IF startswith(s, base) THEN SliceFrom(s, Len(base)) ELSE s
  ELSE s

\* lines 197-202 of the handler: [ok, full]
resolve_rel(rel_url) ==
  LET rel      == lstrip(rel_url, {"/"})
      full0    == pathjoin(MEDIA_ROOT, normpath(rel))
      full_abs == abspath(full0)
      root_abs == abspath(MEDIA_ROOT)
  IN  [ok |-> startswith(full_abs, root_abs \o sep), full |-> full_abs]

\* range(3) of the pruning loop
prune_levels == 3

\* lines 209-215: the directories left after pruning from parent upward
RECURSIVE prune(_, _, _, _)
prune(ds, fs, parent, n) ==
  IF n > 0 /\ isdir(ds, parent) /\ listdir(ds, fs, parent) = {}
  THEN prune(ds \ {parent}, fs, dirname(parent), n - 1)
  ELSE ds

\* lines 173-181
request_data(request) ==
  IF DOMAIN request.json # {} THEN request.json
  ELSE IF DOMAIN request.form # {} THEN request.form
  ELSE IF DOMAIN request.args # {} THEN request.args
  ELSE << >>

\* data.get("url") or data.get("rel_url") or ""
url_or_rel_of(data) ==
  IF get(data, "url", << >>) # << >> THEN data["url"]
  ELSE get(data, "rel_url", << >>)

\* The handler's except branch (500) is not reached here: on this filesystem
\* os.remove of an existing file does not raise, and pruning errors are
\* swallowed inside the loop's own try.
media_delete(ds, fs, request) ==
  IF ~_auth_ok(request)
  THEN Result(jsonify(401, [ok |-> FALSE, error |-> "unauthorized"]), ds, fs, << >>)
  ELSE
    LET data       == request_data(request)
        url_or_rel == strip(url_or_rel_of(data))
    IN
    IF url_or_rel = << >>
    THEN Result(jsonify(400, [ok |-> FALSE, error |-> "missing url or rel_url",
                              received |-> data]), ds, fs, << >>)
    ELSE
      LET s == strip_base(url_or_rel) IN
      IF ~startswith(s, cdn_)
      THEN Result(jsonify(400, [ok |-> FALSE, error |-> "path must start with /cdn/",
                                got |-> s]), ds, fs, << >>)
      ELSE
        LET rel == lstrip(s, {"/"})
            res == resolve_rel(s)
        IN
        IF ~res.ok
        THEN Result(jsonify(403, [ok |-> FALSE, error |-> "forbidden path"]),
                    ds, fs, << >>)
        ELSE IF isfile(fs, res.full)
        THEN LET fs1 == remove(fs, res.full)
                 ds1 == prune(ds, fs1, dirname(res.full), prune_levels)
             IN  Result(jsonify(200, [ok |-> TRUE, deleted |-> sep \o rel]),
                        ds1, fs1, res.full)
        ELSE Result(jsonify(404, [ok |-> FALSE, error |-> "file not found",
                                  rel_url |-> sep \o rel]), ds, fs, res.full)

-----------------------------------------------------------------------------
(* Requests the clients send                                               *)

\* largest number written in the generated Range headers
MaxPos == 3

\* the months the server lives through: strftime("%Y"), strftime("%m")
Dates == << [Y |-> <<"2", "0", "2", "4">>, m |-> <<"0", "5">>],
            [Y |-> <<"2", "0", "2", "4">>, m |-> <<"0", "6">>] >>

\* values of uuid.uuid4().hex[:8]
Hex8s == { <<"0", "1", "2", "3", "a", "b", "c", "d">> }

Tokens   == { << >>, <<"t", "0", "k">> }
BaseUrls == { DefaultBaseUrl, DefaultBaseUrl \o sep }

a_mp4    == <<"a", ".", "m", "p", "4">>
a_PNG    == <<"a", ".", "P", "N", "G">>
a_png    == <<"a", ".", "p", "n", "g">>
a_exe    == <<"a", ".", "e", "x", "e">>
up_a_mp4 == <<".", ".", "/", "a", ".", "m", "p", "4">>

ImageBytes == <<66, 77, 1>>
OtherBytes == <<10, 11, 12>>

\* the multipart "file" fields uploaded: filename and payload
FileParts ==
  { [filename |-> a_mp4,    content |-> << >>],
    [filename |-> a_mp4,    content |-> OtherBytes],
    [filename |-> up_a_mp4, content |-> OtherBytes],
    [filename |-> a_PNG,    content |-> ImageBytes],
    [filename |-> a_png,    content |-> OtherBytes],
    [filename |-> a_exe,    content |-> OtherBytes],
    [filename |-> <<"a">>,  content |-> OtherBytes],
    [filename |-> << >>,    content |-> OtherBytes] }

a_jpg  == <<"a", ".", "j", "p", "g">>
a_jpeg == <<"a", ".", "j", "p", "e", "g">>
a_webp == <<"a", ".", "w", "e", "b", "p">>

\* the multipart "file" fields uploaded with an image extension
ImageParts ==
  { [filename |-> n, content |-> c] :
    n \in {a_jpg, a_jpeg, a_png, a_webp}, c \in {ImageBytes, OtherBytes, << >>} }

AuthHeaders ==
  { << >>,
    "Authorization" :> (Bearer_ \o <<"t", "0", "k">>),
    "Authorization" :> (Bearer_ \o <<"b", "a", "d">>) }

\* root-relative paths of the files the uploads above can store
StoredRels ==
  { uploads \o sep \o Dates[d].Y \o sep \o Dates[d].m \o sep
      \o <<"a", "-">> \o h \o <<".">> \o e :
    d \in 1..Len(Dates), h \in Hex8s, e \in {mp4, png} } 

dotdot == <<".", ".">>
etc    == <<"e", "t", "c">>
mediaX == <<"m", "e", "d", "i", "a", "X">>
media  == <<"m", "e", "d", "i", "a">>

\* some stored file's path
OneStored == CHOOSE r \in StoredRels : endswith(r, mp4)

\* the <path:relpath> values requested under /cdn/
RelPaths ==
  StoredRels \cup
  { << >>, <<".">>, dotdot, uploads,
    dotdot \o sep \o <<"x">>,
    dotdot \o sep \o mediaX \o sep \o <<"x">>,
    sep \o etc,
    sep \o sep \o SliceFrom(MEDIA_ROOT, 1) \o sep \o OneStored,
    MEDIA_ROOT \o sep \o OneStored,
    dotdot \o sep \o media \o sep \o OneStored,
    uploads \o sep \o dotdot \o sep \o OneStored,
    uploads \o sep \o dotdot \o sep \o dotdot \o sep \o dotdot \o sep \o etc }

items_eq == <<"i", "t", "e", "m", "s", "=">>

\* the Range header values sent
RangeValues ==
  { bytes_eq \o str(n) \o <<"-">> : n \in 0..MaxPos } \cup
  { bytes_eq \o str(n) \o <<"-">> \o str(k) : n \in 0..MaxPos, k \in 0..MaxPos } \cup
  { bytes_eq \o <<"1", "-", "1", "2">>,
    bytes_eq \o <<"0", "-", "1", ",", "2", "-", "2">>,
    <<" ">> \o bytes_eq \o <<"1", "-">>,
    bytes_eq \o <<"-", "2">>,
    bytes_eq \o <<"-", "9">>,
    items_eq \o <<"0", "-", "1">>,
    <<"B", "y", "t", "e", "s", "=", "0", "-", "1">>,
    bytes_ }

RangeHeaders == { << >> } \cup { "Range" :> v : v \in RangeValues }

\* the addresses sent for deletion
Addresses ==
  { cdn_ \o r : r \in StoredRels } \cup
  { b \o cdn_ \o r : b \in BaseUrls, r \in StoredRels } \cup
  { cdn_ \o dotdot \o sep \o r : r \in StoredRels } \cup
  { << >>, <<" ">>,
    <<"/", "c", "d", "n">>,
    cdn_,
    cdn_ \o <<".">>,
    cdn_ \o dotdot,
    cdn_ \o dotdot \o sep \o dotdot \o sep \o etc,
    cdn_ \o dotdot \o sep \o dotdot \o sep \o mediaX \o sep \o <<"x">>,
    cdn_ \o dotdot \o sep \o uploads,
    sep \o OneStored,
    OneStored,
    <<" ">> \o cdn_ \o dotdot \o sep \o OneStored \o <<" ">>,
    http_ \o <<"e", "v", "i", "l">> \o cdn_ \o dotdot \o sep \o OneStored,
    DefaultBaseUrl \o <<".", "x">> \o cdn_ \o dotdot \o sep \o OneStored,
    DefaultBaseUrl \o cdn_ \o dotdot \o sep \o OneStored }

\* the dicts a deletion request carries: JSON body, form, query string
DeleteBodies ==
  { [json |-> "url" :> a, form |-> << >>, args |-> << >>] : a \in Addresses } \cup
  { [json |-> << >>, form |-> << >>, args |-> << >>],
    [json |-> "rel_url" :> (cdn_ \o dotdot \o sep \o OneStored),
     form |-> << >>, args |-> << >>],
    [json |-> << >>, form |-> "url" :> (cdn_ \o dotdot \o sep \o OneStored),
     args |-> "url" :> cdn_],
    [json |-> << >>, form |-> << >>,
     args |-> "rel_url" :> (cdn_ \o dotdot \o sep \o OneStored)] }

Request(op, relpath, headers, fileparts, body) ==
  [op |-> op, relpath |-> relpath, headers |-> headers, files |-> fileparts,
   json |-> body.json, form |-> body.form, args |-> body.args]

NoBody == [json |-> << >>, form |-> << >>, args |-> << >>]
NoReq  == Request("none", << >>, << >>, << >>, NoBody)
NoResp == empty_response(0)

\* a _file_iter generator: pc is where it stands ("created": not yet
\* started; "suspended": at its yield; "finished": ran to its end; "closed":
\* closed by the consumer; "raised": open() raised), handle the state of f,
\* inode the bytes readable through f, pos the file offset of f, out the
\* chunks yielded so far
Stream(pc, path, start, end, chunk) ==
  [pc |-> pc, path |-> path, start |-> start, end |-> end, chunk |-> chunk,
   handle |-> "none", inode |-> << >>, pos |-> 0, remaining |-> 0, out |-> << >>]

NoStream == Stream("none", << >>, 0, 0, 0)

\* the worker threads of the server
Workers == {"w1", "w2"}

\* a worker's position in its handler and the handler's locals: pc names the
\* statement it executes next, raised the library call that raised in it
Thread(pc, request, response, path, today, parent, n, raised) ==
  [pc |-> pc, req |-> request, resp |-> response, full |-> path, today |-> today,
   parent |-> parent, n |-> n, raised |-> raised]

Idle == Thread("idle", NoReq, NoResp, << >>, Dates[1], << >>, 0, "")

\* the worker returned response: only the request and its outcome remain
Done(t, response, raised) ==
  Thread("done", t.req, response, t.full, Dates[1], << >>, 0, raised)

-----------------------------------------------------------------------------
(* The server                                                              *)

Init ==
  /\ UPLOAD_TOKEN \in Tokens
  /\ PUBLIC_BASE_URL \in BaseUrls
  /\ clock = 1
  /\ dirs = ancestors(abspath(MEDIA_ROOT))
  /\ files = << >>
  /\ req = NoReq
  /\ resp = NoResp
  /\ full = << >>
  /\ threads = [w \in Workers |-> Idle]
  /\ stream = NoStream

Handle(request, result) ==
  /\ req = NoReq
  /\ req' = request
  /\ resp' = result.resp
  /\ dirs' = result.dirs
  /\ files' = result.files
  /\ full' = result.full
  /\ UNCHANGED <<UPLOAD_TOKEN, PUBLIC_BASE_URL, clock, threads, stream>>

UploadOf(parts) ==
  \E h \in AuthHeaders, f \in {<< >>} \cup {"file" :> p : p \in parts}, x \in Hex8s :
    LET request == Request("upload", << >>, h, f, NoBody)
    IN  Handle(request, media_upload(dirs, files, request, Dates[clock], x))

Upload == UploadOf(FileParts)

UploadImage == UploadOf(ImageParts)

Cdn ==
  \E relpath \in RelPaths, h \in RangeHeaders :
    LET request == Request("cdn", relpath, h, << >>, NoBody)
    IN  Handle(request, cdn(dirs, files, relpath, request))

Delete ==
  \E h \in AuthHeaders, b \in DeleteBodies :
    LET request == Request("delete", << >>, h, << >>, b)
    IN  Handle(request, media_delete(dirs, files, request))

\* the response has been sent; the worker takes the next request
Reply ==
  /\ req # NoReq
  /\ req' = NoReq
  /\ resp' = NoResp
  /\ full' = << >>
  /\ UNCHANGED <<UPLOAD_TOKEN, PUBLIC_BASE_URL, clock, dirs, files, threads, stream>>

\* the UTC month changes
Tick ==
  /\ req = NoReq
  /\ clock < Len(Dates)
  /\ clock' = clock + 1
  /\ UNCHANGED <<UPLOAD_TOKEN, PUBLIC_BASE_URL, dirs, files, req, resp, full,
                 threads, stream>>

Next == Upload \/ Cdn \/ Delete \/ Reply \/ Tick

Spec == Init /\ [][Next]_vars

\* the upload endpoint alone, receiving image files of every sniffed extension
NextImages == UploadImage \/ Reply

SpecImages == Init /\ [][NextImages]_vars

-----------------------------------------------------------------------------
(* The admin handlers run by concurrent threads, one library call per step *)

\* the uploads and the removal addresses sent concurrently
ConcParts ==
  { [filename |-> a_mp4, content |-> OtherBytes],
    [filename |-> a_PNG, content |-> ImageBytes] }

ConcAddresses ==
  { cdn_ \o dotdot \o sep \o r : r \in StoredRels } \cup { cdn_ \o OneStored }

GoodAuth == "Authorization" :> (Bearer_ \o <<"t", "0", "k">>)

basename(p) == SliceFrom(p, rfind1(p, "/"))

\* lines 74-79: the response of a completed upload
upload_response(path, today, size) ==
  LET rel_url == cdn_ \o uploads \o sep \o today.Y \o sep \o today.m \o sep
                   \o basename(path)
  IN  jsonify(200, [ok |-> TRUE, url |-> PUBLIC_BASE_URL \o rel_url,
                    rel_url |-> rel_url, mime |-> guess_type(path), size |-> size])

\* os.rmdir that also removes a directory with entries
rmdir_succeeds_nonempty(ds, fs, d) == isdir(ds, d)

\* os.rmdir(d) succeeds: d is a directory without entries; otherwise OSError
rmdir_succeeds(ds, fs, d) == isdir(ds, d) /\ listdir(ds, fs, d) = {}

Set(w, t) == threads' = [threads EXCEPT ![w] = t]

Sequential ==
  UNCHANGED <<UPLOAD_TOKEN, PUBLIC_BASE_URL, clock, req, resp, full, stream>>

\* lines 41-54: the checks, then os.makedirs(subdir, exist_ok=True)
UploadBegin(w) ==
  /\ threads[w].pc = "idle"
  /\ \E p \in ConcParts, x \in Hex8s :
       LET request == Request("upload", << >>, GoodAuth, "file" :> p, NoBody)
           r       == media_upload(dirs, files, request, Dates[clock], x)
           t       == Thread("save", request, NoResp, r.full, Dates[clock], << >>, 0, "")
       IN  IF r.full = << >>
           THEN Set(w, Done(t, r.resp, "")) /\ UNCHANGED dirs
           ELSE Set(w, t) /\ dirs' = r.dirs
  /\ UNCHANGED files
  /\ Sequential

\* line 59: f.save(fullpath) opens the file for writing; the open raises
\* FileNotFoundError when the directory is gone, and the request ends in 500
UploadSave(w) ==
  LET t   == threads[w]
      f   == t.req.files["file"]
      ext == lower(rsplit_ext(f.filename))
  IN  /\ t.pc = "save"
      /\ IF isdir(dirs, dirname(t.full))
         THEN /\ files' = save(files, t.full, f.content)
              /\ Set(w, [t EXCEPT !.pc = IF ext \in {jpg, jpeg, png}
                                         THEN "sniff" ELSE "stat"])
         ELSE /\ Set(w, Done(t, empty_response(500), "save"))
              /\ UNCHANGED files
      /\ UNCHANGED dirs
      /\ Sequential

\* lines 62-72: imghdr.what(fullpath); an exception is answered like None
UploadSniff(w) ==
  LET t == threads[w]
  IN  /\ t.pc = "sniff"
      /\ IF isfile(files, t.full) /\ imghdr_detects(files[t.full])
         THEN Set(w, [t EXCEPT !.pc = "stat"])
         ELSE Set(w, Done(t, jsonify(400, [ok |-> FALSE, error |-> "invalid image"]),
                          IF isfile(files, t.full) THEN "" ELSE "imghdr"))
      /\ UNCHANGED <<dirs, files>>
      /\ Sequential

\* lines 74-79: os.path.getsize(fullpath) and the response
UploadStat(w) ==
  LET t == threads[w]
  IN  /\ t.pc = "stat"
      /\ IF isfile(files, t.full)
         THEN Set(w, Done(t, upload_response(t.full, t.today, Len(files[t.full])), ""))
         ELSE Set(w, Done(t, empty_response(500), "getsize"))
      /\ UNCHANGED <<dirs, files>>
      /\ Sequential

\* lines 169-205: the checks up to os.path.isfile(full_abs)
DeleteBegin(w) ==
  /\ threads[w].pc = "idle"
  /\ \E a \in ConcAddresses :
       LET request == Request("delete", << >>, GoodAuth, << >>,
                              [json |-> "url" :> a, form |-> << >>, args |-> << >>])
           r       == media_delete(dirs, files, request)
           t       == Thread("remove", request, r.resp, r.full, Dates[1], << >>, 0, "")
       IN  IF r.resp.status = 200 THEN Set(w, t) ELSE Set(w, Done(t, r.resp, ""))
  /\ UNCHANGED <<dirs, files>>
  /\ Sequential

\* line 206: os.remove(full_abs); FileNotFoundError reaches the handler's
\* except Exception (lines 223-224)
DeleteRemove(w) ==
  LET t == threads[w]
  IN  /\ t.pc = "remove"
      /\ IF isfile(files, t.full)
         THEN /\ files' = remove(files, t.full)
              /\ Set(w, [t EXCEPT !.pc = "prune", !.parent = dirname(t.full),
                                  !.n = prune_levels])
         ELSE /\ Set(w, Done(t, jsonify(500, [ok |-> FALSE,
                                              error |-> "FileNotFoundError"]),
                             "remove"))
              /\ UNCHANGED files
      /\ UNCHANGED dirs
      /\ Sequential

\* lines 210-211 and 214-215: one more round of the loop if any is left and
\* the parent is an empty directory; otherwise the 200 response of line 219
DeletePrune(w) ==
  LET t == threads[w]
  IN  /\ t.pc = "prune"
      /\ IF t.n > 0 /\ isdir(dirs, t.parent) /\ listdir(dirs, files, t.parent) = {}
         THEN Set(w, [t EXCEPT !.pc = "rmdir"])
         ELSE Set(w, Done(t, t.resp, ""))
      /\ UNCHANGED <<dirs, files>>
      /\ Sequential

\* lines 212-213 and 216-217: os.rmdir(parent); its OSError is swallowed
DeleteRmdir(w) ==
  LET t == threads[w]
  IN  /\ t.pc = "rmdir"
      /\ IF rmdir_succeeds(dirs, files, t.parent)
         THEN /\ dirs' = dirs \ {t.parent}
              /\ Set(w, [t EXCEPT !.pc = "prune", !.parent = dirname(t.parent),
                                  !.n = t.n - 1])
         ELSE /\ Set(w, Done(t, t.resp, "rmdir"))
              /\ UNCHANGED dirs
      /\ UNCHANGED files
      /\ Sequential

\* the response has been sent; the worker takes the next request
ThreadReply(w) ==
  /\ threads[w].pc = "done"
  /\ Set(w, Idle)
  /\ UNCHANGED <<dirs, files>>
  /\ Sequential

InitConc ==
  /\ Init
  /\ UPLOAD_TOKEN = <<"t", "0", "k">>
  /\ PUBLIC_BASE_URL = DefaultBaseUrl

NextConc ==
  \/ \E w \in Workers :
        \/ UploadBegin(w) \/ UploadSave(w) \/ UploadSniff(w) \/ UploadStat(w)
        \/ DeleteBegin(w) \/ DeleteRemove(w) \/ DeletePrune(w) \/ DeleteRmdir(w)
        \/ ThreadReply(w)
  \/ Tick

SpecConc == InitConc /\ [][NextConc]_vars

-----------------------------------------------------------------------------
(* The body of a 206 response: _file_iter consumed chunk by chunk          *)

\* largest size of the streamed file, and largest start written in a range
MaxSize == 4

\* chunk sizes the generator is run with
Chunks == {1, 2, chunk_default}

\* a file of n bytes
Data(n) == [i \in 1..n |-> i]

StreamPath == pathjoin(abspath(MEDIA_ROOT), OneStored)

\* line 88 without the min against remaining
read_size_chunk(chunk, remaining) == chunk

\* line 88: read = min(chunk, remaining)
read_size(chunk, remaining) == IF chunk < remaining THEN chunk ELSE remaining

\* line 127 has built the generator for a file that was there; the disk
\* may change before the first chunk is asked for
InitStream ==
  /\ UPLOAD_TOKEN = << >>
  /\ PUBLIC_BASE_URL = DefaultBaseUrl
  /\ clock = 1
  /\ dirs = makedirs(ancestors(abspath(MEDIA_ROOT)), dirname(StreamPath))
  /\ \E n \in 0..MaxSize : files = StreamPath :> Data(n)
  /\ req = NoReq
  /\ resp = NoResp
  /\ full = << >>
  /\ threads = [w \in Workers |-> Idle]
  /\ \E start \in 0..MaxSize, end \in 0..(MaxSize + 1), chunk \in Chunks :
       stream = Stream("created", StreamPath, start, end, chunk)

StreamLive == stream.pc \in {"created", "suspended"}

Rest == UNCHANGED <<UPLOAD_TOKEN, PUBLIC_BASE_URL, clock, dirs, req, resp, full, threads>>

\* next(generator): lines 82-84 on the first call, then one round of the
\* loop of lines 85-94, up to the yield or to the end of the with block
StreamNext ==
  /\ StreamLive
  /\ IF stream.pc = "created" /\ ~isfile(files, stream.path)
     THEN stream' = [stream EXCEPT !.pc = "raised"]
     ELSE LET f    == IF stream.pc = "created"
                      THEN [stream EXCEPT !.handle = "open",
                                          !.inode = files[stream.path],
                                          !.pos = stream.start,
                                          !.remaining = stream.end - stream.start + 1]
                      ELSE stream
              data == byteslice(f.inode, f.pos, f.pos + read_size(f.chunk, f.remaining))
          IN  IF f.remaining <= 0 \/ data = << >>
              THEN stream' = [f EXCEPT !.pc = "finished", !.handle = "closed"]
              ELSE stream' = [f EXCEPT !.pc = "suspended",
                                       !.pos = @ + Len(data),
                                       !.remaining = @ - Len(data),
                                       !.out = Append(@, data)]
  /\ UNCHANGED files
  /\ Rest

\* generator.close() when the client goes away: GeneratorExit is raised at
\* the yield and the with block of line 82 closes f
StreamClose ==
  /\ StreamLive
  /\ stream' = [stream EXCEPT !.pc = "closed",
                              !.handle = IF @ = "open" THEN "closed" ELSE @]
  /\ UNCHANGED files
  /\ Rest

\* the file is truncated while the response is being sent (an upload
\* reopening the path for writing, line 59)
FileShrinks ==
  /\ StreamLive
  /\ isfile(files, stream.path)
  /\ \E k \in 0..(Len(files[stream.path]) - 1) :
       /\ files' = [files EXCEPT ![stream.path] = SubSeq(@, 1, k)]
       /\ stream' = IF stream.handle = "open"
                    THEN [stream EXCEPT !.inode = SubSeq(@, 1, k)]
                    ELSE stream
  /\ Rest

\* the file is removed while the response is being sent (os.remove, line
\* 206): an open handle keeps reading the unlinked file
FileDisappears ==
  /\ StreamLive
  /\ isfile(files, stream.path)
  /\ files' = remove(files, stream.path)
  /\ UNCHANGED stream
  /\ Rest

NextStream == StreamNext \/ StreamClose \/ FileShrinks \/ FileDisappears

\* the WSGI server keeps asking for the next chunk of the response body
\* until the generator is exhausted, unless it closes it first
SpecStream == InitStream /\ [][NextStream]_vars /\ WF_vars(StreamNext)

-----------------------------------------------------------------------------
(* Properties                                                              *)

root_abs_ == abspath(MEDIA_ROOT)

\* p names something strictly below the storage root: its components are
\* the root's components followed by at least one real name.
StrictDescendant(p) ==
  LET rootsegs == split(root_abs_, "/")
      segs     == split(p, "/")
  IN  /\ Len(segs) > Len(rootsegs)
      /\ SubSeq(segs, 1, Len(rootsegs)) = rootsegs
      /\ \A i \in (Len(rootsegs) + 1)..Len(segs) :
           segs[i] \notin {<< >>, <<".">>, dotdot}

HasDotDot(s) == \E i \in 1..Len(split(s, "/")) : split(s, "/")[i] = dotdot

\* the address string a deletion request carries, as the handler reads it
AddressOf(request) == strip(url_or_rel_of(request_data(request)))

\* the deletion request passed authentication and address validation
ReachedResolution(request) ==
  /\ request.op = "delete"
  /\ _auth_ok(request)
  /\ AddressOf(request) # << >>
  /\ startswith(strip_base(AddressOf(request)), cdn_)

\* C1: path resolution in the /cdn handler, in _rel_to_full and in the delete
\* handler either yields a strict descendant of the storage root or fails with
\* the traversal error (403 / PermissionError); never the root itself, a path
\* outside it, or a sibling directory sharing the root's string prefix.
C1_ResolutionStaysUnderRoot ==
  /\ req.op = "cdn" =>
       /\ full # << >> => StrictDescendant(full)
       /\ full = << >> => resp.status = 403
       /\ _rel_to_full(req.relpath).ok => StrictDescendant(_rel_to_full(req.relpath).full)
  /\ ReachedResolution(req) =>
       /\ full # << >> => StrictDescendant(full)
       /\ full = << >> => resp.status = 403
       /\ LET r == _rel_to_full(strip_base(AddressOf(req)))
          IN  IF r.ok THEN r.full = full ELSE resp.status = 403

\* a request whose candidate climbs with ".." and is still resolved under the root
C1_Witness ==
  /\ req.op = "cdn"
  /\ HasDotDot(req.relpath)
  /\ full # << >>
  /\ resp.status = 200

\* the request just answered is an upload that succeeded
UploadSucceeded == req.op = "upload" /\ resp.status = 200

\* the deletion request a client holding the same credentials sends for address a
DeleteRequest(a) ==
  Request("delete", << >>, req.headers, << >>,
          [json |-> "url" :> a, form |-> << >>, args |-> << >>])

\* the relpath the route /cdn/<path:relpath> extracts from the URL path p
RouteRelpath(p) == SliceFrom(p, Len(cdn_))

GetRequest(p) == Request("cdn", RouteRelpath(p), << >>, << >>, NoBody)

\* C2: for a successful upload returning canonical path p and public URL u,
\* the stored bytes are at <root>/<p without its leading slash>, GET of p
\* serves that file, and a removal request with p or with u resolves to that
\* same file, deletes it and returns success.
C2_CanonicalAddressingConsistent ==
  UploadSucceeded =>
    LET p       == resp.json.rel_url
        u       == resp.json.url
        content == req.files["file"].content
        stored  == pathjoin(MEDIA_ROOT, Tail(p))
        got     == cdn(dirs, files, RouteRelpath(p), GetRequest(p))
        byp     == media_delete(dirs, files, DeleteRequest(p))
        byu     == media_delete(dirs, files, DeleteRequest(u))
    IN  /\ isfile(files, stored) /\ files[stored] = content
        /\ got.resp.status = 200 /\ got.resp.body = content
        /\ byp.resp.status = 200 /\ byp.full = full /\ ~isfile(byp.files, full)
        /\ byu.resp.status = 200 /\ byu.full = full /\ ~isfile(byu.files, full)

uploads_dir == pathjoin(abspath(MEDIA_ROOT), uploads)

\* C3: pruning removes the emptied month and year directories, but never the
\* uploads directory, the storage root or a directory above it.
C3_PruningBoundary ==
  [][ /\ \A d \in ancestors(uploads_dir) : d \in dirs => d \in dirs'
      /\ \A f \in DOMAIN files \ DOMAIN files' :
           listdir(dirs, files, dirname(f)) = {f} => dirname(f) \notin dirs'
    ]_vars

\* the request just answered is a GET under /cdn/ that found a regular file
ServedFile == req.op = "cdn" /\ full # << >> /\ isfile(files, full)

RangeValue == get(req.headers, "Range", << >>)

\* the Range header is exactly bytes=N- or bytes=N-M
IsRangeForm(v) ==
  LET m == re_match_range(v)
  IN  m.matched /\ v = bytes_eq \o m.g1 \o <<"-">> \o m.g2

RangeStart(v) == int(re_match_range(strip(v)).g1)
RangeEnd(v, size) ==
  LET g2 == re_match_range(strip(v)).g2 IN IF g2 # << >> THEN int(g2) ELSE size - 1

\* C4: for a file of size S and a Range header bytes=N- or bytes=N-M with
\* N < S the response is 206, Content-Range is "bytes start-end/S",
\* Content-Length is end - start + 1 and the body is exactly the bytes
\* [start, end], as many as Content-Length declares.
C4_RangeBodyMatchesHeaders ==
  (ServedFile /\ IsRangeForm(RangeValue) /\ RangeStart(RangeValue) < Len(files[full])) =>
    LET data  == files[full]
        start == RangeStart(RangeValue)
        end   == RangeEnd(RangeValue, Len(data))
    IN  /\ resp.status = 206
        /\ resp.headers[Content_Range] = content_range(start, end, Len(data))
        /\ resp.headers[Content_Length] = strint(end - start + 1)
        /\ Len(resp.body) = end - start + 1
        /\ \A i \in 1..Len(resp.body) :
             start + i <= Len(data) /\ resp.body[i] = data[start + i]

\* "bytes <start>-<end>/<size>" read back as numbers
ContentRangeOf(v) ==
  LET spec_ == afterfirst(v, " ")
      range == split(spec_, "/")[1]
  IN  [start |-> int(split(range, "-")[1]),
       end   |-> int(afterfirst(range, "-")),
       size  |-> int(afterfirst(spec_, "/"))]

\* C5: every range served with a 206 response satisfies
\* 0 <= start <= end < file_size.
C5_ServedRangeWithinFile ==
  (ServedFile /\ resp.status = 206) =>
    LET cr == ContentRangeOf(resp.headers[Content_Range])
    IN  /\ cr.size = Len(files[full])
        /\ 0 <= cr.start /\ cr.start <= cr.end /\ cr.end < cr.size

\* the handler's pattern bytes=<start>-<end?> matches the stripped header
Parsed(v) == strip(v) # << >> /\ re_match_range(strip(v)).matched

\* the start position written in the header, read off the header text itself
StartWritten(v) ==
  CHOOSE n \in 0..(MaxPos + 1) : startswith(strip(v), bytes_eq \o str(n) \o <<"-">>)

\* C6: a parsed range request on an existing file is answered 416, with no
\* body and no Content-Range, exactly when start >= file_size, and 206
\* otherwise; a 416 response never carries file bytes.
C6_UnsatisfiableExactlyWhenStartBeyondFile ==
  /\ (ServedFile /\ Parsed(RangeValue)) =>
       IF StartWritten(RangeValue) >= Len(files[full])
       THEN /\ resp.status = 416
            /\ resp.body = << >>
            /\ Content_Range \notin DOMAIN resp.headers
       ELSE resp.status = 206
  /\ (req.op = "cdn" /\ resp.status = 416) => resp.body = << >>

\* bytes=N- with N equal to the size of a non-empty file is answered 416
C6_Witness ==
  /\ ServedFile
  /\ Parsed(RangeValue)
  /\ Len(files[full]) > 0
  /\ StartWritten(RangeValue) = Len(files[full])
  /\ resp.status = 416

\* C7: for the address of an existing stored file, two successive removal
\* requests yield success and then 404 with the address echoed back; the
\* second call never fails at validation or traversal and never returns 500.
C7_IdempotentDeletion ==
  UploadSucceeded =>
    \A a \in {resp.json.rel_url, resp.json.url} :
      LET first  == media_delete(dirs, files, DeleteRequest(a))
          second == media_delete(first.dirs, first.files, DeleteRequest(a))
      IN  /\ first.resp.status = 200
          /\ ~isfile(first.files, full)
          /\ second.resp.status = 404
          /\ second.resp.json.rel_url = resp.json.rel_url

\* C8: for a successful upload producing canonical path p and public URL u,
\* under every configured base URL, _to_rel_url(u) = p and _to_rel_url(p) = p.
C8_AddressRoundTrip ==
  UploadSucceeded =>
    LET p == resp.json.rel_url
        u == resp.json.url
    IN  /\ u = PUBLIC_BASE_URL \o p
        /\ _to_rel_url(u) = [ok |-> TRUE, value |-> p]
        /\ _to_rel_url(p) = [ok |-> TRUE, value |-> p]
        /\ _to_rel_url(_to_rel_url(p).value) = _to_rel_url(p)

\* the upload carries a file whose name has no extension or one outside the
\* allow-set
ExtensionRefused(request) ==
  /\ request.op = "upload"
  /\ _auth_ok(request)
  /\ "file" \in DOMAIN request.files
  /\ LET name == request.files["file"].filename
         dot  == rfind1(name, ".")
     IN  /\ name # << >>
         /\ dot = 0 \/ lower(SliceFrom(name, dot)) \notin ALLOWED_EXT

\* C9: an upload whose filename has no extension, or an extension outside the
\* allow-set, is rejected with 400 and leaves the filesystem tree unchanged.
C9_RefusedExtensionWritesNothing ==
  [][ ExtensionRefused(req') =>
        /\ resp'.status = 400
        /\ dirs' = dirs
        /\ files' = files
    ]_vars

\* an upload of "a.exe" answered 400 on a disk that already holds files
C9_Witness ==
  /\ ExtensionRefused(req)
  /\ req.files["file"].filename = a_exe
  /\ resp.status = 400
  /\ resp.json.error = "file extension not allowed"
  /\ DOMAIN files # {}

\* C10: a Range header that is absent or does not match bytes=<start>-<end?>
\* gets the full file with status 200 and Accept-Ranges: bytes, never an
\* error status and never a partial response.
C10_UnparsedRangeServesFullFile ==
  (ServedFile /\ ~Parsed(RangeValue)) =>
    /\ resp.status = 200
    /\ resp.body = files[full]
    /\ get(resp.headers, Accept_Ranges, << >>) = bytes_

\* payloads that are not image data of any format
NotImages == {OtherBytes, << >>}

\* the upload passed authentication and the extension test; its lowered
\* extension is in exts
UploadWithExt(request, exts) ==
  /\ request.op = "upload"
  /\ _auth_ok(request)
  /\ "file" \in DOMAIN request.files
  /\ LET name == request.files["file"].filename
     IN  /\ rfind1(name, ".") > 0
         /\ lower(SliceFrom(name, rfind1(name, "."))) \in exts

\* C11: an upload declared jpg, jpeg or png whose content is not recognised
\* as an image is answered 400 "invalid image", yet its bytes are on disk at
\* the generated path under the storage root and the response carries no
\* address for them; a webp upload is never refused by the sniff.
C11_RejectedImageStaysOnDisk ==
  /\ (UploadWithExt(req, {jpg, jpeg, png})
        /\ req.files["file"].content \in NotImages) =>
       /\ resp.status = 400
       /\ resp.json.error = "invalid image"
       /\ DOMAIN resp.json \cap {"url", "rel_url"} = {}
       /\ StrictDescendant(full)
       /\ startswith(full, uploads_dir \o sep \o Dates[clock].Y \o sep
                            \o Dates[clock].m \o sep)
       /\ isfile(files, full)
       /\ files[full] = req.files["file"].content
  /\ UploadWithExt(req, {webp}) =>
       /\ resp.status = 200
       /\ isfile(files, full)

\* a png of non-image bytes was refused and is on disk
C11_Witness ==
  /\ UploadWithExt(req, {png})
  /\ req.files["file"].content = OtherBytes
  /\ resp.status = 400
  /\ isfile(files, full)
  /\ files[full] = OtherBytes

\* the request carries exactly "Authorization: Bearer <token>"
ExactBearer(request) ==
  /\ "Authorization" \in DOMAIN request.headers
  /\ request.headers["Authorization"] = Bearer_ \o UPLOAD_TOKEN

\* the same request sent with a wrong bearer token
WithWrongBearer(request) ==
  [request EXCEPT !.headers =
     ("Authorization" :> (Bearer_ \o <<"b", "a", "d">>)) @@ @]

\* C12: with a token configured, an upload or delete request without the
\* exact "Authorization: Bearer <token>" header is answered 401 and leaves
\* files and directories as they were; with no token configured no request
\* is answered 401; GET /cdn/<relpath> is answered without regard to
\* credentials.
C12_AuthGuardsWritesOnly ==
  [][ /\ (req'.op \in {"upload", "delete"} /\ UPLOAD_TOKEN # << >>
            /\ ~ExactBearer(req')) =>
           /\ resp'.status = 401
           /\ dirs' = dirs
           /\ files' = files
      /\ (req'.op \in {"upload", "delete"}
            /\ (UPLOAD_TOKEN = << >> \/ ExactBearer(req'))) =>
           resp'.status # 401
      /\ req'.op = "cdn" =>
           /\ resp'.status \in {200, 206, 403, 404, 416}
           /\ resp' = cdn(dirs, files, req'.relpath, WithWrongBearer(req')).resp
    ]_vars

\* a removal request with a wrong token, aimed at a file that exists, was
\* answered 401
C12_Witness ==
  /\ req.op = "delete"
  /\ UPLOAD_TOKEN # << >>
  /\ "Authorization" \in DOMAIN req.headers
  /\ ~ExactBearer(req)
  /\ resp.status = 401
  /\ isfile(files, resolve_rel(strip_base(AddressOf(req))).full)

\* worker w has answered a request of kind op
Answered(w, op) == threads[w].pc = "done" /\ threads[w].req.op = op

\* C13: whatever a concurrent removal in the same year/month partition does,
\* an upload that has created (or found) its partition directory writes its
\* file and is answered 200: pruning between os.makedirs and f.save never
\* makes it fail.
C13_UploadSurvivesPruning ==
  \A w \in Workers :
    (Answered(w, "upload") /\ threads[w].full # << >>) =>
      /\ threads[w].raised # "save"
      /\ threads[w].raised = "" => threads[w].resp.status = 200

\* C14: two concurrent removals of the same address of an existing file are
\* fail-safe under every interleaving: one is answered 200 and the other 404,
\* neither 500. A removal of a well-formed address is therefore never
\* answered anything but 200 or 404, and of two answered removals of one
\* address that both passed the existence test only one is answered 200.
C14_ConcurrentRemovalsFailSafe ==
  /\ \A w \in Workers :
       Answered(w, "delete") => threads[w].resp.status \in {200, 404}
  /\ \A w1, w2 \in Workers :
       (/\ w1 # w2
        /\ Answered(w1, "delete") /\ Answered(w2, "delete")
        /\ threads[w1].req = threads[w2].req
        /\ threads[w1].resp.status = 200
        /\ threads[w2].raised = "remove") => threads[w2].resp.status = 404

\* the three directories above file f, nearest first
Ancestors3(f) ==
  {dirname(f), dirname(dirname(f)), dirname(dirname(dirname(f)))}

\* worker w is inside a removal that has found its target
Removing(w) ==
  threads[w].req.op = "delete" /\ threads[w].pc \in {"remove", "prune", "rmdir"}

\* the file the address of w's removal request designates
TargetOf(w) == resolve_rel(strip_base(AddressOf(threads[w].req))).full

\* C15: a removal deletes only its one resolved target file; afterwards it
\* removes only directories among the three above that file, each empty at
\* the moment it is removed, and stops at the first that is missing or not
\* empty; no other file and no non-empty directory disappears; and once the
\* file is deleted the request is answered 200 even when pruning fails in a
\* race with a concurrent upload.
C15_RemovalDeletesTargetAndPrunesEmpty ==
  [][ /\ \A f \in DOMAIN files \ DOMAIN files' :
           /\ DOMAIN files \ DOMAIN files' = {f}
           /\ dirs' = dirs
           /\ \E w \in Workers :
                Removing(w) /\ threads'[w] # threads[w] /\ f = TargetOf(w)
      /\ \A d \in dirs \ dirs' :
           /\ dirs \ dirs' = {d}
           /\ files' = files
           /\ listdir(dirs, files, d) = {}
           /\ \E w \in Workers :
                /\ Removing(w) /\ threads'[w] # threads[w]
                /\ d \in Ancestors3(TargetOf(w))
                /\ ~isfile(files, TargetOf(w)) \/ d # dirname(TargetOf(w))
      /\ \A w \in Workers :
           (threads[w].pc \in {"prune", "rmdir"} /\ threads'[w] # threads[w]) =>
             /\ threads'[w].pc \in {"prune", "rmdir", "done"}
             /\ threads'[w].pc = "done" => threads'[w].resp.status = 200
             /\ (threads[w].pc = "prune"
                   /\ ~(isdir(dirs, threads[w].parent)
                         /\ listdir(dirs, files, threads[w].parent) = {})) =>
                  threads'[w].pc = "done"
    ]_vars

\* a removal whose os.rmdir failed, because an upload wrote into the
\* directory after it was seen empty, was answered 200
C15_Witness ==
  \E w \in Workers :
    /\ Answered(w, "delete")
    /\ threads[w].raised = "rmdir"
    /\ threads[w].resp.status = 200
    /\ ~isfile(files, TargetOf(w))
    /\ listdir(dirs, files, dirname(TargetOf(w))) # {}

\* the path a GET under /cdn/ designates
CdnTarget == abspath(pathjoin(MEDIA_ROOT, normpath(req.relpath)))

\* C16: the /cdn handler decides in a fixed order: a candidate that is not
\* strictly under the root is answered 403 whether or not it exists;
\* otherwise one that is not a regular file (missing, or a directory) is
\* answered 404 whatever the Range header; only then does the Range header
\* decide between 416, 206 and 200; and 403, 404 and 416 carry no file bytes.
C16_CdnChecksInOrder ==
  req.op = "cdn" =>
    /\ ~StrictDescendant(CdnTarget) => resp.status = 403
    /\ (StrictDescendant(CdnTarget) /\ ~isfile(files, CdnTarget)) => resp.status = 404
    /\ (StrictDescendant(CdnTarget) /\ isfile(files, CdnTarget)) =>
         resp.status \in {200, 206, 416}
    /\ resp.status \in {403, 404, 416} => resp.body = << >>
    /\ resp.status \in {200, 206, 403, 404, 416}

\* a ranged GET of an existing directory under the root was answered 404
C16_Witness ==
  /\ req.op = "cdn"
  /\ Parsed(RangeValue)
  /\ StrictDescendant(CdnTarget)
  /\ isdir(dirs, CdnTarget)
  /\ DOMAIN files # {}
  /\ resp.status = 404

\* the number of bytes in a sequence of chunks
RECURSIVE TotalLen(_)
TotalLen(chunks) ==
  IF chunks = << >> THEN 0 ELSE Len(Head(chunks)) + TotalLen(Tail(chunks))

\* the length of the range start..end, no bytes when end < start
RangeLen == IF stream.end >= stream.start THEN stream.end - stream.start + 1 ELSE 0

StreamEnded == stream.pc \in {"finished", "closed", "raised"}

StreamSafe ==
  /\ \A i \in 1..Len(stream.out) :
       /\ Len(stream.out[i]) >= 1
       /\ Len(stream.out[i]) <= stream.chunk
       /\ Len(stream.out[i]) <= chunk_default
  /\ TotalLen(stream.out) <= RangeLen
  /\ \A i \in 1..TotalLen(stream.out) : concat(stream.out)[i] = stream.start + i
  /\ stream.pc = "finished" =>
       \/ TotalLen(stream.out) = RangeLen
       \/ stream.start + TotalLen(stream.out) >= Len(stream.inode)
  /\ stream.handle = "open" <=> stream.pc = "suspended"
  /\ StreamEnded => stream.handle # "open"
  /\ (stream.pc = "finished"
        /\ stream.start + TotalLen(stream.out) <= Len(stream.inode)) =>
       stream.out = _file_iter(stream.inode, stream.start, stream.end, stream.chunk)

\* C17: the body stream of a range response ends for every start, end and
\* file size; every chunk has at most chunk (by default 8192) bytes; in
\* total it yields no more than end - start + 1 bytes (none when the range
\* is empty or inverted); it stops at the end of the file when the file is
\* shorter than end + 1, was truncated or was removed while streaming; and
\* the file handle is open only while the generator is suspended at its
\* yield, so it is released on every way out.
C17_StreamBoundedAndReleased == [](StreamSafe) /\ <>(StreamEnded)

\* a stream cut short by a truncation of the file released its handle
C17_Witness ==
  /\ stream.pc = "finished"
  /\ stream.handle = "closed"
  /\ Len(stream.out) >= 2
  /\ TotalLen(stream.out) < RangeLen
  /\ Len(stream.inode) < Len(Data(MaxSize))
  /\ stream.start + TotalLen(stream.out) >= Len(stream.inode)

\* the deletion request passed authentication and carries an address
CarriesAddress(request) ==
  /\ request.op = "delete"
  /\ _auth_ok(request)
  /\ AddressOf(request) # << >>

IsUrl(a) == startswith(a, http_) \/ startswith(a, https_)

\* a is a full URL that continues the configured base (trailing slashes of
\* the base apart) with a path starting with /cdn/
UnderConfiguredBase(a) ==
  LET base == rstrip(PUBLIC_BASE_URL, {"/"})
  IN  /\ IsUrl(a)
      /\ Len(a) >= Len(base) + Len(cdn_)
      /\ SubSeq(a, 1, Len(base) + Len(cdn_)) = base \o cdn_

\* C18: on every address the delete handler's inlined handling and
\* _to_rel_url followed by _rel_to_full agree: the handler answers "path
\* must start with /cdn/" exactly when _to_rel_url raises, which is exactly
\* when the address is neither a /cdn/ path nor a URL continuing the
\* configured base with one (so a URL under another base is refused); it
\* answers "forbidden path" exactly when _rel_to_full raises; otherwise it
\* resolves the path _rel_to_full returns; and whatever _to_rel_url returns
\* starts with /cdn/.
C18_InlinedAddressingMatchesHelpers ==
  CarriesAddress(req) =>
    LET a == AddressOf(req)
        u == _to_rel_url(url_or_rel_of(request_data(req)))
        r == _rel_to_full(u.value)
    IN  /\ resp.status = 400 <=> ~u.ok
        /\ u.ok <=> (startswith(a, cdn_) \/ UnderConfiguredBase(a))
        /\ (IsUrl(a) /\ ~UnderConfiguredBase(a)) => resp.status = 400
        /\ resp.status = 400 => resp.json.got = u.value
        /\ u.ok => /\ startswith(u.value, cdn_)
                   /\ resp.status = 403 <=> ~r.ok
                   /\ r.ok => (resp.status \in {200, 404} /\ full = r.full)
                   /\ resp.status = 200 => resp.json.deleted = sep \o lstrip(u.value, {"/"})

\* a file was removed through a full URL under a base configured with a
\* trailing slash
C18_Witness ==
  /\ CarriesAddress(req)
  /\ IsUrl(AddressOf(req))
  /\ endswith(PUBLIC_BASE_URL, sep)
  /\ resp.status = 200
  /\ full = _rel_to_full(_to_rel_url(url_or_rel_of(request_data(req))).value).full

====
